---- MODULE Spec2Model ----
(***************************************************************************)
(* Model of the S3 bucket troubleshooter: the check catalog and evaluator  *)
(* (src/src/diagnostics.py), the score aggregator (src/src/models.py), the *)
(* remediation selector and applier (src/src/remediator.py) and the        *)
(* diagnose / fix workflows of src/main.py and src/api_server.py.          *)
(***************************************************************************)
EXTENDS Integers, Sequences, FiniteSets, TLC

(***************************************************************************)
(* Bounds of the model.                                                    *)
(***************************************************************************)
\* longest result sequence handed to calculate_score in SpecScore
MaxResults == 3
\* number of provider queries that may fail transiently during one scan
MaxFaults == 1

(***************************************************************************)
(* Python float arithmetic (IEEE 754 binary64, round to nearest, ties to   *)
(* even), as used by BucketReport.calculate_score.  A non-negative float   *)
(* is [m, e] with value m * 2^e; m is a natural number kept as a           *)
(* little-endian sequence of limbs in base 2^15 (TLC integers are 32 bits  *)
(* wide), odd or zero, so that equal floats are equal records.             *)
(***************************************************************************)
LimbBits == 15
Base == 2^LimbBits
\* significand width of a binary64
Precision == 53

RECURSIVE BStrip(_)
BStrip(a) ==
    IF a = <<>> THEN <<>>
    ELSE IF a[Len(a)] = 0 THEN BStrip(SubSeq(a, 1, Len(a) - 1)) ELSE a

RECURSIVE BFromInt(_)
BFromInt(n) == IF n = 0 THEN <<>> ELSE <<n % Base>> \o BFromInt(n \div Base)

RECURSIVE BToInt(_)
BToInt(a) == IF a = <<>> THEN 0 ELSE Head(a) + Base * BToInt(Tail(a))

RECURSIVE BAddC(_, _, _)
BAddC(a, b, c) ==
    IF a = <<>> /\ b = <<>> THEN (IF c = 0 THEN <<>> ELSE <<c>>)
    ELSE LET x == IF a = <<>> THEN 0 ELSE Head(a)
             y == IF b = <<>> THEN 0 ELSE Head(b)
             t == x + y + c
         IN  <<t % Base>> \o BAddC(IF a = <<>> THEN <<>> ELSE Tail(a),
                                   IF b = <<>> THEN <<>> ELSE Tail(b),
                                   t \div Base)

BAdd(a, b) == BAddC(a, b, 0)

RECURSIVE BMulSmall(_, _, _)
BMulSmall(a, k, c) ==
    IF a = <<>> THEN BFromInt(c)
    ELSE LET t == Head(a) * k + c
         IN  <<t % Base>> \o BMulSmall(Tail(a), k, t \div Base)

RECURSIVE BMul(_, _)
BMul(a, b) ==
    IF a = <<>> \/ b = <<>> THEN <<>>
    ELSE LET rest == BMul(a, Tail(b))
         IN  BStrip(BAdd(BMulSmall(a, Head(b), 0),
                         IF rest = <<>> THEN <<>> ELSE <<0>> \o rest))

\* quotient and remainder of a by a one-limb divisor d
RECURSIVE BDivSmall(_, _)
BDivSmall(a, d) ==
    IF a = <<>> THEN [q |-> <<>>, r |-> 0]
    ELSE LET hi  == BDivSmall(Tail(a), d)
             cur == hi.r * Base + Head(a)
         IN  [q |-> BStrip(<<cur \div d>> \o hi.q), r |-> cur % d]

RECURSIVE BitLenInt(_)
BitLenInt(n) == IF n = 0 THEN 0 ELSE 1 + BitLenInt(n \div 2)

BBitLen(a) == IF a = <<>> THEN 0
              ELSE LimbBits * (Len(a) - 1) + BitLenInt(a[Len(a)])

BShl(a, s) ==
    IF a = <<>> THEN <<>>
    ELSE [i \in 1..(s \div LimbBits) |-> 0] \o BMulSmall(a, 2^(s % LimbBits), 0)

BShr(a, s) ==
    LET k == s \div LimbBits
    IN  IF k >= Len(a) THEN <<>>
        ELSE BDivSmall(SubSeq(a, k + 1, Len(a)), 2^(s % LimbBits)).q

\* bit i (0 = least significant) of a
BBit(a, i) ==
    LET k == i \div LimbBits + 1
    IN  IF k > Len(a) THEN 0 ELSE (a[k] \div 2^(i % LimbBits)) % 2

\* some bit below bit n of a is set
BLowNonZero(a, n) ==
    LET k == n \div LimbBits
    IN  \/ \E i \in 1..k : i <= Len(a) /\ a[i] # 0
        \/ k + 1 <= Len(a) /\ a[k + 1] % 2^(n % LimbBits) # 0

RECURSIVE TrailingZeros(_)
TrailingZeros(n) == IF n % 2 = 1 THEN 0 ELSE 1 + TrailingZeros(n \div 2)

RECURSIVE FCanon(_, _)
FCanon(m, e) ==
    IF m = <<>> THEN [m |-> <<>>, e |-> 0]
    ELSE IF Head(m) = 0 THEN FCanon(Tail(m), e + LimbBits)
    ELSE LET t == TrailingZeros(Head(m))
         IN  [m |-> BDivSmall(m, 2^t).q, e |-> e + t]

\* the binary64 nearest to (m + f) * 2^e, where 0 <= f < 1 and f > 0 iff sticky
FRound(m, e, sticky) ==
    LET shift == BBitLen(m) - Precision
    IN  IF shift <= 0 THEN FCanon(m, e)
        ELSE LET q     == BShr(m, shift)
                 guard == BBit(m, shift - 1)
                 lower == BLowNonZero(m, shift - 1) \/ sticky
                 up    == guard = 1 /\ (lower \/ BBit(q, 0) = 1)
             IN  FCanon(IF up THEN BAdd(q, <<1>>) ELSE q, e + shift)

FFromInt(n) == FCanon(BFromInt(n), 0)

FAdd(x, y) ==
    IF x.m = <<>> THEN y
    ELSE IF y.m = <<>> THEN x
    ELSE LET e == IF x.e < y.e THEN x.e ELSE y.e
         IN  FRound(BAdd(BShl(x.m, x.e - e), BShl(y.m, y.e - e)), e, FALSE)

FMul(x, y) == FRound(BMul(x.m, y.m), x.e + y.e, FALSE)

\* x / y for a divisor whose odd significand fits one limb (total_weight is
\* a sum of multipliers, each a multiple of 0.5, so its significand does)
FDiv(x, y) ==
    IF x.m = <<>> THEN x
    ELSE LET d  == BToInt(y.m)
             s  == Precision + 2 + BitLenInt(d) - BBitLen(x.m)
             dr == BDivSmall(BShl(x.m, s), d)
         IN  FRound(dr.q, x.e - y.e - s, dr.r # 0)

\* int(x) for x >= 0: truncation toward zero
FTrunc(x) ==
    IF x.e >= 0 THEN BToInt(BShl(x.m, x.e)) ELSE BToInt(BShr(x.m, 0 - x.e))

\* the float denoted by the decimal literal num/den
FLit(num, den) == FDiv(FFromInt(num), FFromInt(den))


(***************************************************************************)
(* Data model (src/src/models.py).                                         *)
(***************************************************************************)
Severity == {"CRITICAL", "HIGH", "MEDIUM", "LOW", "INFO"}
CheckStatus == {"PASS", "FAIL", "WARNING", "ERROR", "SKIPPED"}

\* exception = "" unless the result carries an exception text (message and
\* details["exception"] of the result built by run_all_checks)
DiagnosticResult(name, status, severity, fixable, exception) ==
    [check_name |-> name, status |-> status, severity |-> severity,
     auto_fixable |-> fixable, exception |-> exception]

BucketReport == [results |-> <<>>, score |-> 0, overall_health |-> "UNKNOWN"]

weights_inverted ==
    [v \in CheckStatus |->
        CASE v = "PASS"    -> FLit(0, 10)
          [] v = "WARNING" -> FLit(6, 10)
          [] v = "FAIL"    -> FLit(10, 10)
          [] v = "ERROR"   -> FLit(0, 10)
          [] v = "SKIPPED" -> FLit(5, 10)]

weights_pass_low ==
    [v \in CheckStatus |->
        CASE v = "PASS"    -> FLit(9, 10)
          [] v = "WARNING" -> FLit(6, 10)
          [] v = "FAIL"    -> FLit(0, 10)
          [] v = "ERROR"   -> FLit(0, 10)
          [] v = "SKIPPED" -> FLit(5, 10)]

weights_scaled ==
    [s \in CheckStatus |->
        CASE s = "PASS"    -> FLit(10, 10)
          [] s = "WARNING" -> FLit(60, 10)
          [] s = "FAIL"    -> FLit(0, 10)
          [] s = "ERROR"   -> FLit(0, 10)
          [] s = "SKIPPED" -> FLit(5, 10)]

\* weights: PASS 1.0, WARNING 0.6, FAIL 0.0, ERROR 0.0, SKIPPED 0.5
weights ==
    [s \in CheckStatus |->
        CASE s = "PASS"    -> FLit(10, 10)
          [] s = "WARNING" -> FLit(6, 10)
          [] s = "FAIL"    -> FLit(0, 10)
          [] s = "ERROR"   -> FLit(0, 10)
          [] s = "SKIPPED" -> FLit(5, 10)]

\* severity_multipliers: CRITICAL 3.0, HIGH 2.5, MEDIUM 2.0, LOW 1.5, INFO 1.0
severity_multipliers ==
    [v \in Severity |->
        CASE v = "CRITICAL" -> FLit(30, 10)
          [] v = "HIGH"     -> FLit(25, 10)
          [] v = "MEDIUM"   -> FLit(20, 10)
          [] v = "LOW"      -> FLit(15, 10)
          [] v = "INFO"     -> FLit(10, 10)]

\* the loop of calculate_score: the two accumulators after the first n results
RECURSIVE ScoreSums(_, _)
ScoreSums(results, n) ==
    IF n = 0 THEN [weighted_score |-> FFromInt(0), total_weight |-> FFromInt(0)]
    ELSE LET acc        == ScoreSums(results, n - 1)
             r          == results[n]
             multiplier == IF r.severity \in DOMAIN severity_multipliers
                           THEN severity_multipliers[r.severity]
                           ELSE FLit(10, 10)
             weight     == IF r.status \in DOMAIN weights
                           THEN weights[r.status] ELSE FFromInt(0)
         IN  [weighted_score |-> FAdd(acc.weighted_score, FMul(weight, multiplier)),
              total_weight   |-> FAdd(acc.total_weight, multiplier)]

HealthOf_mutant(score) ==
    IF score >= 90 THEN "HEALTHY"
    ELSE IF score > 70 THEN "GOOD"
    ELSE IF score >= 50 THEN "NEEDS_ATTENTION"
    ELSE IF score >= 30 THEN "UNHEALTHY"
    ELSE "CRITICAL"

HealthOf(score) ==
    IF score >= 90 THEN "HEALTHY"
    ELSE IF score >= 70 THEN "GOOD"
    ELSE IF score >= 50 THEN "NEEDS_ATTENTION"
    ELSE IF score >= 30 THEN "UNHEALTHY"
    ELSE "CRITICAL"

calculate_score_mutant(rep) ==
    LET sums  == ScoreSums(rep.results, Len(rep.results))
        score == IF sums.total_weight.m # <<>>
                 THEN FTrunc(FMul(FDiv(sums.weighted_score, sums.total_weight),
                                  FFromInt(100)))
                 ELSE 0
    IN  [rep EXCEPT !.score = score, !.overall_health = HealthOf(score)]

\* BucketReport.calculate_score: the report with score and overall_health set
calculate_score(rep) ==
    IF rep.results = <<>>
    THEN [rep EXCEPT !.score = 0, !.overall_health = "UNKNOWN"]
    ELSE LET sums  == ScoreSums(rep.results, Len(rep.results))
             score == IF sums.total_weight.m # <<>>
                      THEN FTrunc(FMul(FDiv(sums.weighted_score,
                                            sums.total_weight),
                                       FFromInt(100)))
                      ELSE 0
         IN  [rep EXCEPT !.score = score, !.overall_health = HealthOf(score)]

(***************************************************************************)
(* Fact Provider (src/src/aws_client.py).  A query method is given the     *)
(* bucket's setting for its concern and the outcome of the boto3 call:     *)
(* "ok", or "ClientError" for a ClientError whose code is not the          *)
(* "not configured" code of the concern.  Any other exception raised by    *)
(* boto3 (EndpointConnectionError, NoCredentialsError, ...) is not caught  *)
(* by S3Client and propagates to the caller: outcome "Exception".          *)
(***************************************************************************)
Flags == {"BlockPublicAcls", "IgnorePublicAcls", "BlockPublicPolicy",
          "RestrictPublicBuckets"}

DefaultRegion == "us-east-1"

\* code: the HTTP status of head_bucket
bucket_exists(code) ==
    IF code = "200" THEN [exists |-> TRUE, accessible |-> TRUE, error |-> FALSE]
    ELSE IF code = "404" THEN [exists |-> FALSE, accessible |-> FALSE, error |-> TRUE]
    ELSE IF code = "403" THEN [exists |-> TRUE, accessible |-> FALSE, error |-> TRUE]
    ELSE [exists |-> FALSE, accessible |-> FALSE, error |-> TRUE]

\* None is modelled as ""
get_bucket_location(location, outcome) ==
    IF outcome = "ok" THEN (IF location # "" THEN location ELSE "us-east-1")
    ELSE ""

get_bucket_policy(policy, outcome) ==
    IF outcome = "ok"
    THEN IF policy.kind # "none"
         THEN [exists |-> TRUE, policy |-> policy, error |-> FALSE]
         ELSE [exists |-> FALSE, policy |-> policy, error |-> FALSE]
    ELSE [exists |-> FALSE, policy |-> [kind |-> "none"], error |-> TRUE]

get_bucket_acl(grants, outcome) ==
    IF outcome = "ok" THEN [success |-> TRUE, grants |-> grants]
    ELSE [success |-> FALSE, grants |-> <<>>]

get_public_access_block(pab, outcome) ==
    IF outcome = "ok"
    THEN IF pab.exists
         THEN [exists |-> TRUE, config |-> pab.config, error |-> FALSE]
         ELSE [exists |-> FALSE, config |-> << >>, error |-> FALSE]
    ELSE [exists |-> FALSE, config |-> << >>, error |-> TRUE]

get_bucket_encryption(rules, outcome) ==
    IF outcome = "ok"
    THEN IF rules # <<>>
         THEN [enabled |-> TRUE, rules |-> rules, error |-> FALSE]
         ELSE [enabled |-> FALSE, rules |-> <<>>, error |-> FALSE]
    ELSE [enabled |-> FALSE, rules |-> <<>>, error |-> TRUE]

\* versioning "" = the response carries no Status
get_bucket_versioning(versioning, outcome) ==
    IF outcome = "ok"
    THEN [status |-> IF versioning # "" THEN versioning ELSE "Disabled",
          error |-> FALSE]
    ELSE [status |-> "Unknown", error |-> TRUE]

get_lifecycle_rules(lifecycle, outcome) ==
    IF outcome = "ok"
    THEN IF lifecycle.exists
         THEN [exists |-> TRUE, rules |-> lifecycle.rules, error |-> FALSE]
         ELSE [exists |-> FALSE, rules |-> <<>>, error |-> FALSE]
    ELSE [exists |-> FALSE, rules |-> <<>>, error |-> TRUE]

get_cors_configuration(cors, outcome) ==
    IF outcome = "ok"
    THEN IF cors.exists
         THEN [exists |-> TRUE, rules |-> cors.rules, error |-> FALSE]
         ELSE [exists |-> FALSE, rules |-> <<>>, error |-> FALSE]
    ELSE [exists |-> FALSE, rules |-> <<>>, error |-> TRUE]

get_bucket_logging(logging, outcome) ==
    IF outcome = "ok" THEN [enabled |-> logging, error |-> FALSE]
    ELSE [enabled |-> FALSE, error |-> TRUE]

get_bucket_replication(replication, outcome) ==
    IF outcome = "ok" THEN [enabled |-> replication, error |-> FALSE]
    ELSE [enabled |-> FALSE, error |-> TRUE]

get_object_lock_configuration(object_lock, outcome) ==
    IF outcome = "ok" THEN [enabled |-> object_lock, error |-> FALSE]
    ELSE [enabled |-> FALSE, error |-> TRUE]

\* acceleration "" = the response carries no Status
get_transfer_acceleration(acceleration, outcome) ==
    IF outcome = "ok"
    THEN LET status == IF acceleration # "" THEN acceleration ELSE "Suspended"
         IN  [enabled |-> status = "Enabled", status |-> status, error |-> FALSE]
    ELSE [enabled |-> FALSE, status |-> "Unknown", error |-> TRUE]

get_bucket_tagging(tagging, outcome) ==
    IF outcome = "ok"
    THEN IF tagging.exists
         THEN [exists |-> TRUE, tags |-> tagging.tags, error |-> FALSE]
         ELSE [exists |-> FALSE, tags |-> <<>>, error |-> FALSE]
    ELSE [exists |-> FALSE, tags |-> <<>>, error |-> TRUE]

get_bucket_size_estimate(objects, outcome) ==
    IF outcome = "ok" THEN [success |-> TRUE, object_count |-> objects]
    ELSE [success |-> FALSE, object_count |-> 0]

(***************************************************************************)
(* Check functions (src/src/diagnostics.py).  A check returns a result or  *)
(* raises; CheckStatus has no member INFO, so evaluating CheckStatus.INFO  *)
(* raises AttributeError.                                                  *)
(***************************************************************************)
Return(name, status, severity, fixable) ==
    [raised |-> FALSE,
     result |-> DiagnosticResult(name, status, severity, fixable, "")]

Raise(exception) == [raised |-> TRUE, exception |-> exception]

check_bucket_exists(result) ==
    IF result.exists /\ result.accessible
    THEN Return("Bucket Existence & Access", "PASS", "CRITICAL", FALSE)
    ELSE IF result.exists /\ ~result.accessible
    THEN Return("Bucket Existence & Access", "FAIL", "CRITICAL", FALSE)
    ELSE Return("Bucket Existence & Access", "FAIL", "CRITICAL", FALSE)

sensitive_actions_mutant == {"s3:DeleteBucket", "s3:PutBucketPolicy"}

sensitive_actions == {"s3:DeleteBucket", "s3:DeleteObject", "s3:PutBucketPolicy"}

\* the severities of the issues a statement adds, as a set
StatementIssues(statement) ==
    (IF statement.Effect = "Allow" /\ statement.Principal \in {"*", "AWS:*"}
     THEN {"CRITICAL"} ELSE {})
    \cup (IF statement.Action.kind = "str" /\ statement.Action.str = "s3:*"
          THEN {"HIGH"} ELSE {})
    \cup (IF /\ statement.Action.kind = "list"
             /\ \E i \in 1..Len(statement.Action.list) :
                    statement.Action.list[i] \in sensitive_actions
             /\ ~statement.Condition
          THEN {"MEDIUM"} ELSE {})

check_bucket_policy(result) ==
    IF ~result.exists
    THEN Return("Bucket Policy", "WARNING", "LOW", FALSE)
    ELSE IF result.policy.kind = "unparsable"
    THEN Return("Bucket Policy", "ERROR", "HIGH", FALSE)
    ELSE LET statements == result.policy.statements
             issues == UNION {StatementIssues(statements[i]) :
                                  i \in 1..Len(statements)}
             critical == "CRITICAL" \in issues
         IN  IF issues # {}
             THEN Return("Bucket Policy",
                         IF critical THEN "FAIL" ELSE "WARNING",
                         IF critical THEN "CRITICAL" ELSE "HIGH", FALSE)
             ELSE Return("Bucket Policy", "PASS", "HIGH", FALSE)

ConfigGet_mutant(config, k) == IF k \in DOMAIN config THEN config[k] ELSE TRUE

\* config.get(k, False)
ConfigGet(config, k) == IF k \in DOMAIN config THEN config[k] ELSE FALSE

check_public_access(result) ==
    IF ~result.exists
    THEN Return("Public Access Block", "FAIL", "CRITICAL", TRUE)
    ELSE LET config == result.config
             all_blocked == \A k \in Flags : ConfigGet(config, k)
         IN  IF all_blocked
             THEN Return("Public Access Block", "PASS", "CRITICAL", FALSE)
             ELSE Return("Public Access Block", "FAIL", "CRITICAL", TRUE)

check_acl_permissions(result) ==
    IF ~result.success
    THEN Return("ACL Permissions", "ERROR", "HIGH", FALSE)
    ELSE LET grants == result.grants
             issues == {i \in 1..Len(grants) :
                            grants[i].URI \in {"AllUsers", "AuthenticatedUsers"}}
         IN  IF issues # {}
             THEN Return("ACL Permissions", "FAIL", "CRITICAL", FALSE)
             ELSE Return("ACL Permissions", "PASS", "HIGH", FALSE)

check_encryption_mutant(result) ==
    IF result.enabled
    THEN IF result.rules = <<>> THEN Raise("IndexError")
         ELSE Return("Server-Side Encryption", "PASS", "HIGH", FALSE)
    ELSE IF result.error THEN Raise("KeyError")
    ELSE Return("Server-Side Encryption", "FAIL", "HIGH", FALSE)

check_encryption(result) ==
    IF result.enabled
    THEN IF result.rules = <<>> THEN Raise("IndexError")
         ELSE Return("Server-Side Encryption", "PASS", "HIGH", FALSE)
    ELSE Return("Server-Side Encryption", "FAIL", "HIGH", TRUE)

check_versioning_mutant(result) ==
    LET status == result.status
    IN  IF status = "Enabled"
        THEN Return("Versioning", "PASS", "MEDIUM", FALSE)
        ELSE IF status = "Suspended"
        THEN Return("Versioning", "WARNING", "MEDIUM", FALSE)
        ELSE Return("Versioning", "FAIL", "HIGH", TRUE)

check_versioning(result) ==
    LET status == result.status
    IN  IF status = "Enabled"
        THEN Return("Versioning", "PASS", "MEDIUM", FALSE)
        ELSE IF status = "Suspended"
        THEN Return("Versioning", "WARNING", "MEDIUM", TRUE)
        ELSE Return("Versioning", "FAIL", "MEDIUM", TRUE)

check_lifecycle(result) ==
    IF result.exists /\ result.rules # <<>>
    THEN Return("Lifecycle Rules", "PASS", "LOW", FALSE)
    ELSE Return("Lifecycle Rules", "WARNING", "LOW", FALSE)

check_cors_mutant(result) ==
    IF ~result.exists
    THEN Return("CORS Configuration", "PASS", "INFO", FALSE)
    ELSE LET rules == result.rules
             issues == {i \in 1..Len(rules) : "*" \in rules[i].AllowedOrigins}
         IN  IF issues # {}
             THEN Return("CORS Configuration", "WARNING", "MEDIUM", FALSE)
             ELSE Return("CORS Configuration", "PASS", "LOW", FALSE)

check_cors(result) ==
    IF ~result.exists
    THEN Return("CORS Configuration", "PASS", "INFO", FALSE)
    ELSE LET rules == result.rules
             issues == {i \in 1..Len(rules) :
                            \/ "*" \in rules[i].AllowedOrigins
                            \/ "DELETE" \in rules[i].AllowedMethods
                            \/ "PUT" \in rules[i].AllowedMethods}
         IN  IF issues # {}
             THEN Return("CORS Configuration", "WARNING", "MEDIUM", FALSE)
             ELSE Return("CORS Configuration", "PASS", "LOW", FALSE)

check_logging(result) ==
    IF result.enabled
    THEN Return("Access Logging", "PASS", "MEDIUM", FALSE)
    ELSE Return("Access Logging", "WARNING", "MEDIUM", TRUE)

check_replication(result) ==
    IF result.enabled
    THEN Return("Replication", "PASS", "INFO", FALSE)
    ELSE Raise("AttributeError")

check_object_lock(result) ==
    IF result.enabled
    THEN Return("Object Lock", "PASS", "INFO", FALSE)
    ELSE Raise("AttributeError")

check_transfer_acceleration(result) == Raise("AttributeError")

recommended_tags == {"Environment", "Project", "Owner", "CostCenter"}

check_tagging(result) ==
    IF result.exists /\ result.tags # <<>>
    THEN LET tag_keys == {result.tags[i] : i \in 1..Len(result.tags)}
             missing  == recommended_tags \ tag_keys
         IN  IF missing # {}
             THEN Return("Bucket Tagging", "WARNING", "LOW", FALSE)
             ELSE Return("Bucket Tagging", "PASS", "LOW", FALSE)
    ELSE Return("Bucket Tagging", "WARNING", "LOW", FALSE)

check_bucket_size(result) ==
    IF result.success
    THEN Raise("AttributeError")
    ELSE Return("Bucket Size", "ERROR", "INFO", FALSE)

(***************************************************************************)
(* The check catalog of run_all_checks, in order.                          *)
(***************************************************************************)
checks ==
    << "Bucket Existence & Access", "Bucket Policy", "Public Access Block",
       "ACL Permissions", "Server-Side Encryption", "Versioning",
       "Lifecycle Rules", "CORS Configuration", "Access Logging",
       "Replication", "Object Lock", "Transfer Acceleration",
       "Bucket Tagging", "Bucket Size" >>

\* the status head_bucket answers with
HeadCode(exists, outcome) == IF outcome = "ok" THEN exists ELSE "500"

\* check_func(bucket_name) of catalog entry i against bucket b
check_func(i, b, outcome) ==
    IF outcome = "Exception" THEN Raise("EndpointConnectionError")
    ELSE CASE i = 1  -> check_bucket_exists(bucket_exists(HeadCode(b.exists, outcome)))
           [] i = 2  -> check_bucket_policy(get_bucket_policy(b.policy, outcome))
           [] i = 3  -> check_public_access(
                            get_public_access_block(b.public_access_block, outcome))
           [] i = 4  -> check_acl_permissions(get_bucket_acl(b.acl, outcome))
           [] i = 5  -> check_encryption(get_bucket_encryption(b.encryption, outcome))
           [] i = 6  -> check_versioning(get_bucket_versioning(b.versioning, outcome))
           [] i = 7  -> check_lifecycle(get_lifecycle_rules(b.lifecycle, outcome))
           [] i = 8  -> check_cors(get_cors_configuration(b.cors, outcome))
           [] i = 9  -> check_logging(get_bucket_logging(b.logging, outcome))
           [] i = 10 -> check_replication(get_bucket_replication(b.replication, outcome))
           [] i = 11 -> check_object_lock(
                            get_object_lock_configuration(b.object_lock, outcome))
           [] i = 12 -> check_transfer_acceleration(
                            get_transfer_acceleration(b.acceleration, outcome))
           [] i = 13 -> check_tagging(get_bucket_tagging(b.tagging, outcome))
           [] i = 14 -> check_bucket_size(get_bucket_size_estimate(b.objects, outcome))

\* the result run_all_checks builds in its except branch
except_result_mutant(check_name, exception) ==
    DiagnosticResult(check_name, "ERROR", "HIGH", FALSE, exception)

except_result(check_name, exception) ==
    DiagnosticResult(check_name, "ERROR", "MEDIUM", FALSE, exception)

\* one iteration of the loop of run_all_checks: the results after it
run_check_mutant(results, check_name, out) ==
    IF out.raised THEN results ELSE Append(results, out.result)

run_check(results, check_name, out) ==
    IF out.raised
    THEN Append(results, except_result(check_name, out.exception))
    ELSE Append(results, out.result)

(***************************************************************************)
(* Remediation (src/src/remediator.py, src/api_server.py).                 *)
(***************************************************************************)
\* the list comprehension of Remediator.remediate_all
select_fixable_mutant(results) ==
    SelectSeq(results, LAMBDA r : r.status \in {"FAIL", "WARNING"})

select_fixable(results) ==
    SelectSeq(results, LAMBDA r : r.auto_fixable /\ r.status \in {"FAIL", "WARNING"})

\* the list comprehension of fix_bucket
api_select_fixable(results) ==
    SelectSeq(results, LAMBDA r : r.auto_fixable /\ r.status \in {"FAIL", "WARNING"})

fix_map_mutant ==
    [n \in {"Public Access Block", "Server-Side Encryption", "Versioning",
            "Access Logging"} |->
        CASE n = "Public Access Block"    -> "block_public_access"
          [] n = "Server-Side Encryption" -> "enable_encryption"
          [] n = "Versioning"             -> "enable_versioning"
          [] n = "Access Logging"         -> "enable_versioning"]

\* fix_map of Remediator._apply_fix and of fix_bucket: check name -> mutation
fix_map ==
    [n \in {"Public Access Block", "Server-Side Encryption", "Versioning"} |->
        CASE n = "Public Access Block"    -> "block_public_access"
          [] n = "Server-Side Encryption" -> "enable_encryption"
          [] n = "Versioning"             -> "enable_versioning"]

block_public_access(b) ==
    [b EXCEPT !.public_access_block =
                  [exists |-> TRUE, config |-> [k \in Flags |-> TRUE]]]

enable_encryption(b, sse_algorithm) ==
    [b EXCEPT !.encryption = <<sse_algorithm>>]

enable_versioning_mutant(b) == [b EXCEPT !.versioning = "Suspended"]

enable_versioning(b) == [b EXCEPT !.versioning = "Enabled"]

\* the bucket after a successful call of mutation op
Mutate(op, b) ==
    CASE op = "block_public_access" -> block_public_access(b)
      [] op = "enable_encryption"   -> enable_encryption(b, "AES256")
      [] op = "enable_versioning"   -> enable_versioning(b)

\* what a mutation method returns (it catches ClientError only)
MutationResult(check_name, outcome) ==
    [check |-> check_name, success |-> outcome = "ok",
     message |-> IF outcome = "ok" THEN "done" ELSE "error"]

NoFixResult(check_name) ==
    [check |-> check_name, success |-> FALSE,
     message |-> "No automated fix available for this check."]

(***************************************************************************)
(* Buckets the model runs against.                                         *)
(***************************************************************************)
Statement(effect, principal, action, condition) ==
    [Effect |-> effect, Principal |-> principal, Action |-> action,
     Condition |-> condition]

ActionStr(s) == [kind |-> "str", str |-> s, list |-> <<>>]
ActionList(l) == [kind |-> "list", str |-> "", list |-> l]

NoConfig == [exists |-> FALSE, config |-> [k \in {} |-> TRUE]]

PabFacts ==
    { NoConfig,
      [exists |-> TRUE, config |-> [k \in Flags |-> TRUE]],
      [exists |-> TRUE, config |-> [k \in Flags |-> k # "BlockPublicPolicy"]],
      [exists |-> TRUE,
       config |-> [k \in Flags \ {"RestrictPublicBuckets"} |-> TRUE]] }

Hardened ==
    [location    |-> "eu-west-1",
     policy      |-> [kind |-> "document",
                      statements |-> << Statement("Allow", "arn",
                                                  ActionStr("s3:GetObject"), FALSE) >>],
     acl         |-> << [URI |-> ""] >>,
     lifecycle   |-> [exists |-> TRUE, rules |-> << "Enabled" >>],
     cors        |-> [exists |-> FALSE, rules |-> <<>>],
     replication |-> TRUE,
     object_lock |-> TRUE,
     acceleration |-> "Enabled",
     tagging     |-> [exists |-> TRUE,
                      tags |-> << "Environment", "Project", "Owner", "CostCenter" >>],
     objects     |-> 3]

Lax ==
    [location    |-> "",
     policy      |-> [kind |-> "document",
                      statements |-> << Statement("Allow", "*",
                                                  ActionStr("s3:*"), FALSE) >>],
     acl         |-> << [URI |-> ""], [URI |-> "AllUsers"] >>,
     lifecycle   |-> [exists |-> FALSE, rules |-> <<>>],
     cors        |-> [exists |-> TRUE,
                      rules |-> << [AllowedOrigins |-> {"*"},
                                    AllowedMethods |-> {"GET", "PUT"}] >>],
     replication |-> FALSE,
     object_lock |-> FALSE,
     acceleration |-> "",
     tagging     |-> [exists |-> FALSE, tags |-> <<>>],
     objects     |-> 0]

\* bucket policies: none, a text that is not JSON, and documents of one or
\* two statements
Document(statements) == [kind |-> "document", statements |-> statements]

PolicyFacts ==
    { [kind |-> "none"],
      [kind |-> "unparsable"],
      Document(<<>>),
      Document(<< Statement("Allow", "*", ActionStr("s3:GetObject"), FALSE) >>),
      Document(<< Statement("Allow", "AWS:*", ActionList(<<"s3:GetObject">>), TRUE) >>),
      Document(<< Statement("Deny", "*", ActionStr("s3:GetObject"), FALSE) >>),
      Document(<< Statement("Allow", "arn", ActionStr("s3:*"), FALSE) >>),
      Document(<< Statement("Allow", "arn", ActionList(<<"s3:*">>), FALSE) >>),
      Document(<< Statement("Allow", "arn",
                            ActionList(<<"s3:GetObject", "s3:DeleteObject">>), FALSE) >>),
      Document(<< Statement("Allow", "arn",
                            ActionList(<<"s3:GetObject", "s3:DeleteObject">>), TRUE) >>),
      Document(<< Statement("Allow", "arn", ActionStr("s3:DeleteObject"), FALSE) >>),
      Document(<< Statement("Allow", "arn", ActionStr("s3:*"), FALSE),
                  Statement("Allow", "*", ActionStr("s3:GetObject"), FALSE) >>) }

\* lifecycle configurations: the Status of each rule
LifecycleFacts ==
    { [exists |-> TRUE, rules |-> << "Disabled" >>],
      [exists |-> TRUE, rules |-> << "Disabled", "Enabled" >>],
      [exists |-> TRUE, rules |-> << "Disabled", "Disabled" >>] }

CorsRule(origins, methods) ==
    [AllowedOrigins |-> origins, AllowedMethods |-> methods]

CorsFacts ==
    { [exists |-> TRUE, rules |-> << CorsRule({"https://a.example"}, {"GET"}) >>],
      [exists |-> TRUE, rules |-> << CorsRule({"*"}, {"GET"}) >>],
      [exists |-> TRUE, rules |-> << CorsRule({"https://a.example"}, {"GET", "PUT"}) >>],
      [exists |-> TRUE, rules |-> << CorsRule({"https://a.example"}, {"GET"}),
                                     CorsRule({"https://b.example"}, {"DELETE"}) >>],
      [exists |-> TRUE, rules |-> << CorsRule({"https://a.example"}, {"GET"}),
                                     CorsRule({"https://b.example", "*"}, {"HEAD"}) >>] }

Bucket(exists, pab, enc, ver, logging, rest) ==
    [exists |-> exists, location |-> rest.location, policy |-> rest.policy,
     public_access_block |-> pab, acl |-> rest.acl, encryption |-> enc,
     versioning |-> ver, lifecycle |-> rest.lifecycle, cors |-> rest.cors,
     logging |-> logging, replication |-> rest.replication,
     object_lock |-> rest.object_lock, acceleration |-> rest.acceleration,
     tagging |-> rest.tagging, objects |-> rest.objects]

\* a bucket with every setting in place
SoundBucket ==
    Bucket("200", [exists |-> TRUE, config |-> [k \in Flags |-> TRUE]],
           <<"aws:kms">>, "Enabled", TRUE, Hardened)

\* a bucket that does not exist answers every query with a ClientError
Buckets ==
    { Bucket("200", pab, enc, ver, logging, rest) :
          pab \in PabFacts, enc \in {<<>>, <<"aws:kms">>},
          ver \in {"", "Suspended", "Enabled"}, logging \in BOOLEAN,
          rest \in {Hardened, Lax} }
    \cup { Bucket("404", NoConfig, <<>>, "", FALSE, Lax) }
    \cup { [SoundBucket EXCEPT !.policy = p] : p \in PolicyFacts }
    \cup { [SoundBucket EXCEPT !.lifecycle = l] : l \in LifecycleFacts }
    \cup { [SoundBucket EXCEPT !.cors = c] : c \in CorsFacts }

(***************************************************************************)
(* State.                                                                  *)
(***************************************************************************)
VARIABLES
    bucket,        \* the configuration of the bucket at the provider
    faults,        \* transient query faults the provider may still inject
    entry,         \* the entry point that runs: "scan" (run_all_checks alone),
                   \* "diagnose" (CLI diagnose --fix), "fix" (CLI fix),
                   \* "api_fix" (POST /api/fix), "score" (a hand-built report)
    auto_approve,  \* Remediator.auto_approve
    pc,            \* position of the entry point
    report,        \* the BucketReport of the first scan
    new_report,    \* the BucketReport of the scan after remediation
    fixable,       \* the results selected for remediation
    fix_results,   \* the outcome sequence of the remediation
    fix_idx,       \* number of selected results the fix loop has processed
    check_idx,     \* number of catalog entries the running scan has processed
    calls,         \* history: the mutation methods invoked, in order
    confirmed,     \* history: "" | "auto" | "yes" | "no"
    raised,        \* history: catalog entries whose check raised in the scan
    qfailed,       \* history: catalog entries whose query returned its error result
    final_score,   \* the score printed or returned at the end, -1 if none
    credentials,   \* the provider credentials: "valid", "invalid" (every call
                   \* is answered with a ClientError) or "missing" (every call
                   \* raises NoCredentialsError)
    advisory,      \* what diagnose got from the Advisory Engine
    client,        \* the shared S3Client: its _client and the handles built
    threads        \* the API requests that run concurrently on the shared client

vars == << bucket, faults, entry, auto_approve, pc, report, new_report,
           fixable, fix_results, fix_idx, check_idx, calls, confirmed, raised, qfailed,
           final_score, credentials, advisory, client, threads >>

\* the state of the advisory step and of the concurrent API requests
advisory_vars == << advisory, client, threads >>

\* a report not constructed yet has region ""
NoReport == [region |-> "", results |-> <<>>, score |-> 0,
             overall_health |-> "UNKNOWN"]

\* diagnose has not reached its advisory step
NoAdvice == [step |-> "pending", answer |-> "", raised |-> FALSE, analysis |-> "",
             summary |-> "", priority_actions |-> <<>>]

\* S3Client.__init__: no connection handle yet
NewClient == [_client |-> 0, built |-> 0]

InitCommon ==
    /\ advisory = NoAdvice
    /\ client = NewClient
    /\ report = NoReport
    /\ new_report = NoReport
    /\ fixable = <<>>
    /\ fix_results = <<>>
    /\ fix_idx = 0
    /\ check_idx = 0
    /\ calls = <<>>
    /\ confirmed = ""
    /\ raised = {}
    /\ qfailed = {}
    /\ final_score = -1

\* the report the running scan fills
Cur == IF pc = "rescan" THEN new_report ELSE report

SetCur(r) ==
    IF pc = "rescan" THEN new_report' = r /\ UNCHANGED report
    ELSE report' = r /\ UNCHANGED new_report

\* the outcomes the provider can give to the query of catalog entry i
\* (0 = get_bucket_location)
QueryOutcomes(i) ==
    IF credentials = "invalid" THEN {"ClientError"}
    ELSE IF credentials = "missing" THEN {"Exception"}
    ELSE (IF bucket.exists = "404" /\ i # 1 THEN {"ClientError"} ELSE {"ok"})
         \cup (IF faults > 0 THEN {"ClientError", "Exception"} ELSE {})

Injected(i, outcome) ==
    /\ credentials = "valid"
    /\ outcome = "Exception" \/ (outcome = "ClientError" /\ bucket.exists # "404")

\* where an exception that leaves the entry point ends
Unhandled == IF entry \in {"api_fix", "api_diagnose"} THEN "error500" ELSE "crashed"

\* S3Client.verify_credentials: NoCredentialsError and ClientError are caught
verify_credentials(creds) == [valid |-> creds = "valid"]

\* diagnose and fix: verify the credentials, exit with status 1 if invalid
VerifyCredentials ==
    /\ pc = "verify"
    /\ entry \in {"diagnose", "fix"}
    /\ pc' = IF verify_credentials(credentials).valid THEN "scan" ELSE "exit1"
    /\ UNCHANGED << bucket, faults, entry, auto_approve, report, new_report,
                    fixable, fix_results, fix_idx, check_idx, calls, confirmed,
                    raised, qfailed, final_score, credentials, advisory_vars >>

\* run_all_checks, first statements: resolve the region, construct the report
ResolveRegion ==
    /\ pc \in {"scan", "rescan"}
    /\ Cur.region = ""
    /\ \E outcome \in QueryOutcomes(0) :
          /\ faults' = IF Injected(0, outcome) THEN faults - 1 ELSE faults
          /\ IF outcome = "Exception"
             THEN /\ pc' = Unhandled
                  /\ UNCHANGED <<report, new_report>>
             ELSE LET location == get_bucket_location(bucket.location, outcome)
                      region   == IF location # "" THEN location ELSE DefaultRegion
                  IN  /\ SetCur([Cur EXCEPT !.region = region])
                      /\ UNCHANGED pc
    /\ UNCHANGED << credentials, advisory_vars >>
    /\ UNCHANGED << bucket, entry, auto_approve, fixable, fix_results, fix_idx,
                    check_idx, calls, confirmed, raised, qfailed, final_score >>

\* run_all_checks, one iteration of the loop over the catalog; the last
\* iteration is followed by calculate_score and the return
RunCheck ==
    /\ pc \in {"scan", "rescan"}
    /\ Cur.region # ""
    /\ check_idx < Len(checks)
    /\ \E outcome \in QueryOutcomes(check_idx + 1) :
          LET i    == check_idx + 1
              out  == check_func(i, bucket, outcome)
              rep  == [Cur EXCEPT !.results = run_check(@, checks[i], out)]
              last == i = Len(checks)
          IN  /\ check_idx' = i
              /\ faults' = IF Injected(i, outcome) THEN faults - 1 ELSE faults
              /\ raised' = IF out.raised THEN raised \cup {i} ELSE raised
              /\ qfailed' = IF /\ outcome = "ClientError"
                               /\ (i = 1 => HeadCode(bucket.exists, outcome) = "500")
                            THEN qfailed \cup {i} ELSE qfailed
              /\ SetCur(IF last THEN calculate_score(rep) ELSE rep)
              /\ pc' = IF ~last THEN pc
                       ELSE IF pc = "scan" THEN "scanned" ELSE "rescanned"
    /\ UNCHANGED << credentials, advisory_vars >>
    /\ UNCHANGED << bucket, entry, auto_approve, fixable, fix_results, fix_idx,
                    calls, confirmed, final_score >>

\* the Advisory Engine as diagnose sees it: is_available() and what the
\* call of the model gives ("json": a JSON document, "text": any other text,
\* "raises": an exception)
AiProviders == {"none", "bedrock"}

AiAnswers == {"json", "text", "raises"}

AiResult(did_raise, analysis, summary, priority_actions) ==
    [raised |-> did_raise, analysis |-> analysis, summary |-> summary,
     priority_actions |-> priority_actions]

analyze_report_mutant(provider, answer) ==
    IF provider = "none"
    THEN AiResult(FALSE, "AI analysis unavailable (no provider).", "N/A", <<>>)
    ELSE IF answer = "raises" THEN AiResult(TRUE, "", "", <<>>)
    ELSE IF answer = "json"
    THEN AiResult(FALSE, "model analysis", "model summary", <<"action">>)
    ELSE AiResult(FALSE, "model text", "model text", <<>>)

\* AIEngine.analyze_report
analyze_report(provider, answer) ==
    IF provider = "none"
    THEN AiResult(FALSE, "AI analysis unavailable (no provider).", "N/A", <<>>)
    ELSE IF answer = "raises"
    THEN AiResult(FALSE, "AI failed: error", "Error", <<>>)
    ELSE IF answer = "json"
    THEN AiResult(FALSE, "model analysis", "model summary", <<"action">>)
    ELSE AiResult(FALSE, "model text", "model text", <<>>)

\* diagnose, the AI analysis block: skipped with --no-ai and when no
\* provider is available; the result only fills ai_analysis and ai_summary
Advise ==
    /\ pc = "scanned"
    /\ entry = "diagnose"
    /\ advisory.step = "pending"
    /\ \E no_ai \in BOOLEAN, provider \in AiProviders, answer \in AiAnswers :
          IF no_ai
          THEN advisory' = [NoAdvice EXCEPT !.step = "off"] /\ UNCHANGED pc
          ELSE IF provider = "none"
          THEN advisory' = [NoAdvice EXCEPT !.step = "skipped"] /\ UNCHANGED pc
          ELSE LET ai_result == analyze_report(provider, answer)
               IN  /\ advisory' = [step |-> "done", answer |-> answer,
                                   raised |-> ai_result.raised,
                                   analysis |-> ai_result.analysis,
                                   summary |-> ai_result.summary,
                                   priority_actions |-> ai_result.priority_actions]
                   /\ pc' = IF ai_result.raised THEN "crashed" ELSE pc
    /\ UNCHANGED << bucket, faults, entry, auto_approve, report, new_report,
                    fixable, fix_results, fix_idx, check_idx, calls, confirmed,
                    raised, qfailed, final_score, credentials, client, threads >>

\* Remediator.remediate_all up to the fix loop (CLI diagnose --fix and fix);
\* answer is the user's reply to Confirm.ask
remediate_all_mutant(answer) ==
    /\ pc = "scanned"
    /\ entry \in {"diagnose", "fix"}
    /\ entry = "diagnose" => advisory.step # "pending"
    /\ fixable' = select_fixable(report.results)
    /\ IF fixable' = <<>>
       THEN /\ pc' = "done"
            /\ final_score' = IF entry = "diagnose" THEN report.score ELSE -1
            /\ UNCHANGED confirmed
       ELSE /\ pc' = "fixing"
            /\ confirmed' = IF auto_approve THEN "auto"
                            ELSE IF answer THEN "yes" ELSE "no"
            /\ UNCHANGED final_score
    /\ UNCHANGED << credentials, advisory_vars >>
    /\ UNCHANGED << bucket, faults, entry, auto_approve, report, new_report,
                    fix_results, fix_idx, check_idx, calls, raised, qfailed >>

remediate_all_asks_first(answer) ==
    /\ pc = "scanned"
    /\ entry \in {"diagnose", "fix"}
    /\ entry = "diagnose" => advisory.step # "pending"
    /\ fixable' = select_fixable(report.results)
    /\ confirmed' = IF auto_approve THEN "auto"
                    ELSE IF answer THEN "yes" ELSE "no"
    /\ IF fixable' = <<>> \/ confirmed' = "no"
       THEN /\ pc' = "done"
            /\ final_score' = IF entry = "diagnose" THEN report.score ELSE -1
       ELSE /\ pc' = "fixing"
            /\ UNCHANGED final_score
    /\ UNCHANGED << credentials, advisory_vars >>
    /\ UNCHANGED << bucket, faults, entry, auto_approve, report, new_report,
                    fix_results, fix_idx, check_idx, calls, raised, qfailed >>

remediate_all(answer) ==
    /\ pc = "scanned"
    /\ entry \in {"diagnose", "fix"}
    /\ entry = "diagnose" => advisory.step # "pending"
    /\ fixable' = select_fixable(report.results)
    /\ IF fixable' = <<>>
       THEN \* returns []; the caller skips the summary and the re-scan
            /\ pc' = "done"
            /\ final_score' = IF entry = "diagnose" THEN report.score ELSE -1
            /\ UNCHANGED confirmed
       ELSE IF auto_approve \/ answer
       THEN /\ pc' = "fixing"
            /\ confirmed' = IF auto_approve THEN "auto" ELSE "yes"
            /\ UNCHANGED final_score
       ELSE \* declined: returns []
            /\ pc' = "done"
            /\ confirmed' = "no"
            /\ final_score' = IF entry = "diagnose" THEN report.score ELSE -1
    /\ UNCHANGED << credentials, advisory_vars >>
    /\ UNCHANGED << bucket, faults, entry, auto_approve, report, new_report,
                    fix_results, fix_idx, check_idx, calls, raised, qfailed >>

\* the outcomes the provider can give to a mutation
MutationOutcomes ==
    IF credentials = "invalid" THEN {"ClientError"}
    ELSE IF credentials = "missing" THEN {"Exception"}
    ELSE (IF bucket.exists = "404" THEN {"ClientError"} ELSE {"ok", "ClientError"})
         \cup {"Exception"}

\* Remediator.remediate_all, one iteration of the fix loop: _apply_fix
apply_fix ==
    /\ pc = "fixing"
    /\ entry \in {"diagnose", "fix"}
    /\ fix_idx < Len(fixable)
    /\ LET issue == fixable[fix_idx + 1]
           last  == fix_idx + 1 = Len(fixable)
       IN  IF issue.check_name \in DOMAIN fix_map
           THEN \E outcome \in MutationOutcomes :
                  /\ calls' = Append(calls, fix_map[issue.check_name])
                  /\ IF outcome = "Exception"
                     THEN /\ pc' = Unhandled
                          /\ UNCHANGED <<bucket, fix_results, fix_idx>>
                     ELSE /\ bucket' = IF outcome = "ok"
                                       THEN Mutate(fix_map[issue.check_name], bucket)
                                       ELSE bucket
                          /\ fix_results' = Append(fix_results,
                                 MutationResult(issue.check_name, outcome))
                          /\ fix_idx' = fix_idx + 1
                          /\ pc' = IF last THEN "fixed" ELSE "fixing"
           ELSE /\ fix_results' = Append(fix_results, NoFixResult(issue.check_name))
                /\ fix_idx' = fix_idx + 1
                /\ pc' = IF last THEN "fixed" ELSE "fixing"
                /\ UNCHANGED <<bucket, calls>>
    /\ UNCHANGED << credentials, advisory_vars >>
    /\ UNCHANGED << faults, entry, auto_approve, report, new_report, fixable,
                    check_idx, confirmed, raised, qfailed, final_score >>

\* fix_bucket: the selection after the first scan
api_select ==
    /\ pc = "scanned"
    /\ entry = "api_fix"
    /\ fixable' = api_select_fixable(report.results)
    /\ pc' = IF fixable' = <<>> THEN "fixed" ELSE "fixing"
    /\ confirmed' = "auto"
    /\ UNCHANGED << credentials, advisory_vars >>
    /\ UNCHANGED << bucket, faults, entry, auto_approve, report, new_report,
                    fix_results, fix_idx, check_idx, calls, raised, qfailed,
                    final_score >>

\* fix_bucket: one iteration of its fix loop
api_apply_fix ==
    /\ pc = "fixing"
    /\ entry = "api_fix"
    /\ fix_idx < Len(fixable)
    /\ LET issue == fixable[fix_idx + 1]
           last  == fix_idx + 1 = Len(fixable)
       IN  IF issue.check_name \in DOMAIN fix_map
           THEN \E outcome \in MutationOutcomes :
                  /\ calls' = Append(calls, fix_map[issue.check_name])
                  /\ IF outcome = "Exception"
                     THEN /\ pc' = Unhandled
                          /\ UNCHANGED <<bucket, fix_results, fix_idx>>
                     ELSE /\ bucket' = IF outcome = "ok"
                                       THEN Mutate(fix_map[issue.check_name], bucket)
                                       ELSE bucket
                          /\ fix_results' = Append(fix_results,
                                 MutationResult(issue.check_name, outcome))
                          /\ fix_idx' = fix_idx + 1
                          /\ pc' = IF last THEN "fixed" ELSE "fixing"
           ELSE /\ fix_idx' = fix_idx + 1
                /\ pc' = IF last THEN "fixed" ELSE "fixing"
                /\ UNCHANGED <<bucket, calls, fix_results>>
    /\ UNCHANGED << credentials, advisory_vars >>
    /\ UNCHANGED << faults, entry, auto_approve, report, new_report, fixable,
                    check_idx, confirmed, raised, qfailed, final_score >>

\* what the entry point does once the fixes are applied
after_fix ==
    /\ pc = "fixed"
    /\ IF entry = "diagnose"
       THEN \* remediation summary, then "Final Score" of the first report
            /\ pc' = "done"
            /\ final_score' = report.score
            /\ UNCHANGED <<check_idx, raised, qfailed>>
       ELSE IF entry = "api_fix" \/ fix_results # <<>>
       THEN /\ pc' = "rescan"
            /\ check_idx' = 0
            /\ raised' = {}
            /\ qfailed' = {}
            /\ UNCHANGED final_score
       ELSE /\ pc' = "done"
            /\ UNCHANGED <<check_idx, raised, qfailed, final_score>>
    /\ UNCHANGED << credentials, advisory_vars >>
    /\ UNCHANGED << bucket, faults, entry, auto_approve, report, new_report,
                    fixable, fix_results, fix_idx, calls, confirmed >>

\* fix: new_report.calculate_score() and "Before -> After";
\* fix_bucket: after_score of the response
finish ==
    /\ pc = "rescanned"
    /\ pc' = "done"
    /\ new_report' = IF entry = "fix" THEN calculate_score(new_report)
                      ELSE new_report
    /\ final_score' = new_report'.score
    /\ UNCHANGED << credentials, advisory_vars >>
    /\ UNCHANGED << bucket, faults, entry, auto_approve, report,
                    fixable, fix_results, fix_idx, check_idx, calls, confirmed,
                    raised, qfailed >>

\* diagnose_bucket: the response is the report of the scan
api_respond ==
    /\ pc = "scanned"
    /\ entry = "api_diagnose"
    /\ pc' = "done"
    /\ final_score' = report.score
    /\ UNCHANGED << bucket, faults, entry, auto_approve, report, new_report,
                    fixable, fix_results, fix_idx, check_idx, calls, confirmed,
                    raised, qfailed, credentials, advisory_vars >>

(***************************************************************************)
(* Spec: the CLI and API entry points against every bucket of Buckets,     *)
(* and with credentials the provider rejects against two of them.          *)
(***************************************************************************)
Credentials == {"valid", "invalid", "missing"}

Init ==
    /\ bucket \in Buckets
    /\ credentials \in Credentials
    /\ credentials # "valid" =>
           bucket \in {SoundBucket, Bucket("200", NoConfig, <<>>, "", FALSE, Lax)}
    /\ faults = 0
    /\ \/ entry \in {"diagnose", "fix"} /\ auto_approve \in BOOLEAN /\ pc = "verify"
       \/ entry = "api_fix" /\ auto_approve = TRUE /\ pc = "scan"
       \/ entry = "api_diagnose" /\ auto_approve = FALSE /\ pc = "scan"
    /\ threads = <<>>
    /\ InitCommon

Next ==
    \/ VerifyCredentials
    \/ ResolveRegion
    \/ RunCheck
    \/ api_respond
    \/ Advise
    \/ \E answer \in BOOLEAN : remediate_all(answer)
    \/ apply_fix
    \/ api_select
    \/ api_apply_fix
    \/ after_fix
    \/ finish

Spec == Init /\ [][Next]_vars

(***************************************************************************)
(* SpecScan: run_all_checks alone, with transient provider faults.         *)
(***************************************************************************)
InitScan ==
    /\ bucket \in Buckets
    /\ faults = MaxFaults
    /\ entry = "scan"
    /\ pc = "scan"
    /\ credentials = "valid"
    /\ auto_approve = FALSE
    /\ threads = <<>>
    /\ InitCommon

NextScan ==
    \/ ResolveRegion
    \/ RunCheck

SpecScan == InitScan /\ [][NextScan]_vars

(***************************************************************************)
(* SpecScore: a report filled by add_result and then scored by             *)
(* calculate_score, for every result sequence of at most MaxResults        *)
(* results.                                                                *)
(***************************************************************************)
InitScore ==
    /\ bucket = Bucket("200", NoConfig, <<>>, "", FALSE, Lax)
    /\ faults = 0
    /\ entry = "score"
    /\ pc = "scan"
    /\ credentials = "valid"
    /\ auto_approve = FALSE
    /\ threads = <<>>
    /\ InitCommon

\* BucketReport.add_result
add_result(status, severity) ==
    /\ entry = "score"
    /\ pc = "scan"
    /\ Len(report.results) < MaxResults
    /\ report' = [report EXCEPT
                     !.results = Append(@, DiagnosticResult("c", status, severity,
                                                            FALSE, ""))]
    /\ pc' = "scan"
    /\ UNCHANGED << credentials, advisory_vars >>
    /\ UNCHANGED << bucket, faults, entry, auto_approve, new_report, fixable,
                    fix_results, fix_idx, check_idx, calls, confirmed, raised,
                    qfailed, final_score >>

CalculateScore ==
    /\ entry = "score"
    /\ pc = "scan"
    /\ report' = calculate_score(report)
    /\ pc' = "scored"
    /\ UNCHANGED << credentials, advisory_vars >>
    /\ UNCHANGED << bucket, faults, entry, auto_approve, new_report, fixable,
                    fix_results, fix_idx, check_idx, calls, confirmed, raised,
                    qfailed, final_score >>

NextScore ==
    \/ \E status \in CheckStatus, severity \in Severity : add_result(status, severity)
    \/ CalculateScore

SpecScore == InitScore /\ [][NextScore]_vars

(***************************************************************************)
(* SpecServe: MaxRequests requests GET /api/diagnose/<bucket> served by    *)
(* the threads of the API server on its module-level S3Client and          *)
(* S3Diagnostics, one request per thread, each for a bucket of its own.    *)
(***************************************************************************)
MaxRequests == 2

Requests == 1..MaxRequests

\* the bucket request t names
ThreadBuckets ==
    << SoundBucket,
       Bucket("200", NoConfig, <<>>, "", FALSE, Lax),
       Bucket("200", NoConfig, <<>>, "Suspended", TRUE, Hardened) >>

ThreadBucket(t) == ThreadBuckets[((t - 1) % Len(ThreadBuckets)) + 1]

\* a request that has entered diagnose_bucket and run_all_checks
NewRequest(t) ==
    [pc |-> "start", bucket |-> ThreadBucket(t), made |-> 0, handle |-> 0,
     report |-> NoReport, check_idx |-> 0]

InitServe ==
    /\ bucket = SoundBucket
    /\ faults = 0
    /\ entry = "api_diagnose"
    /\ pc = "serving"
    /\ credentials = "valid"
    /\ auto_approve = FALSE
    /\ threads = [t \in Requests |-> NewRequest(t)]
    /\ InitCommon

serve_unchanged ==
    UNCHANGED << bucket, faults, entry, auto_approve, pc, report, new_report,
                 fixable, fix_results, fix_idx, check_idx, calls, confirmed,
                 raised, qfailed, final_score, credentials, advisory >>

\* S3Client.client, the test "self._client is None"
client_check(t) ==
    /\ pc = "serving"
    /\ threads[t].pc = "start"
    /\ threads' = [threads EXCEPT
                      ![t].pc = IF client._client = 0 THEN "construct" ELSE "return"]
    /\ UNCHANGED client
    /\ serve_unchanged

\* S3Client.client, boto3.Session(...).client("s3", ...): a new handle
client_construct(t) ==
    /\ pc = "serving"
    /\ threads[t].pc = "construct"
    /\ client' = [client EXCEPT !.built = @ + 1]
    /\ threads' = [threads EXCEPT ![t].made = client.built + 1, ![t].pc = "assign"]
    /\ serve_unchanged

\* S3Client.client, the assignment to self._client
client_assign(t) ==
    /\ pc = "serving"
    /\ threads[t].pc = "assign"
    /\ client' = [client EXCEPT !._client = threads[t].made]
    /\ threads' = [threads EXCEPT ![t].pc = "return"]
    /\ serve_unchanged

\* S3Client.client, "return self._client": the handle the caller queries with
client_return(t) ==
    /\ pc = "serving"
    /\ threads[t].pc = "return"
    /\ threads' = [threads EXCEPT ![t].handle = client._client, ![t].pc = "locate"]
    /\ UNCHANGED client
    /\ serve_unchanged

\* run_all_checks: resolve the region and construct the report, a local
thread_resolve_region(t) ==
    /\ pc = "serving"
    /\ threads[t].pc = "locate"
    /\ LET location == get_bucket_location(threads[t].bucket.location, "ok")
           region   == IF location # "" THEN location ELSE DefaultRegion
       IN  threads' = [threads EXCEPT ![t].report = [NoReport EXCEPT !.region = region],
                                      ![t].pc = "progress"]
    /\ UNCHANGED client
    /\ serve_unchanged

\* a Progress of another request is live on the module-level console
OtherLive(t) == \E u \in Requests : u # t /\ threads[u].pc = "checks"

\* what Console.set_live does with a second live display: rich before 14.1
\* raises LiveError, later versions nest the displays
LiveOutcomes(t) == IF OtherLive(t) THEN {"nested", "LiveError"} ELSE {"started"}

\* run_all_checks, "with Progress(..., console=console) as progress"; a
\* LiveError leaves run_all_checks and diagnose_bucket answers 500
enter_progress(t) ==
    /\ pc = "serving"
    /\ threads[t].pc = "progress"
    /\ \E outcome \in LiveOutcomes(t) :
          threads' = [threads EXCEPT
                         ![t].pc = IF outcome = "LiveError" THEN "error500"
                                   ELSE "checks"]
    /\ UNCHANGED client
    /\ serve_unchanged

\* run_all_checks, one iteration of the loop over the catalog; the last
\* iteration is followed by calculate_score and the return
thread_run_check(t) ==
    /\ pc = "serving"
    /\ threads[t].pc = "checks"
    /\ LET i    == threads[t].check_idx + 1
           out  == check_func(i, threads[t].bucket, "ok")
           rep  == [threads[t].report EXCEPT !.results = run_check(@, checks[i], out)]
           last == i = Len(checks)
       IN  threads' = [threads EXCEPT
                          ![t].check_idx = i,
                          ![t].report = IF last THEN calculate_score(rep) ELSE rep,
                          ![t].pc = IF last THEN "returned" ELSE "checks"]
    /\ UNCHANGED client
    /\ serve_unchanged

NextServe ==
    \/ \E t \in Requests : client_check(t)
    \/ \E t \in Requests : client_construct(t)
    \/ \E t \in Requests : client_assign(t)
    \/ \E t \in Requests : client_return(t)
    \/ \E t \in Requests : thread_resolve_region(t)
    \/ \E t \in Requests : enter_progress(t)
    \/ \E t \in Requests : thread_run_check(t)

SpecServe == InitServe /\ [][NextServe]_vars

(***************************************************************************)
(* Properties.                                                             *)
(***************************************************************************)
Registered == {"Public Access Block", "Server-Side Encryption", "Versioning"}

CliEntries == {"diagnose", "fix"}

\* C1: the report run_all_checks returns has exactly 14 results, one per
\* catalog entry and in catalog order (Bucket Existence & Access first,
\* Bucket Size last), whichever checks return and whichever raise; while the
\* scan runs, the results are the catalog's first check_idx entries.
C1_TotalCoverage ==
    /\ entry = "scan" =>
          /\ Len(report.results) = check_idx
          /\ \A i \in 1..Len(report.results) :
                 report.results[i].check_name = checks[i]
    /\ pc = "scanned" =>
          /\ Len(report.results) = 14
          /\ report.results[1].check_name = "Bucket Existence & Access"
          /\ report.results[14].check_name = "Bucket Size"
          /\ \A i, j \in 1..14 :
                 i # j => report.results[i].check_name # report.results[j].check_name

\* a finished scan in which the first check raised and the second returned
C1_Witness ==
    /\ entry = "scan"
    /\ pc = "scanned"
    /\ 1 \in raised
    /\ 2 \notin raised

\* C2: for a non-empty result sequence calculate_score sets
\* score = floor(100 * weighted_sum / total_weight), with the weights and
\* multipliers of the claim taken as exact decimals (here in tenths and in
\* halves), and the health follows the thresholds.
StatusTenths(status) ==
    CASE status = "PASS" -> 10 [] status = "WARNING" -> 6
      [] status = "SKIPPED" -> 5 [] OTHER -> 0

SeverityHalves(severity) ==
    CASE severity = "CRITICAL" -> 6 [] severity = "HIGH" -> 5
      [] severity = "MEDIUM" -> 4 [] severity = "LOW" -> 3 [] OTHER -> 2

RECURSIVE ExactWeighted(_, _)
ExactWeighted(rs, n) ==
    IF n = 0 THEN 0
    ELSE ExactWeighted(rs, n - 1)
         + StatusTenths(rs[n].status) * SeverityHalves(rs[n].severity)

RECURSIVE ExactTotal(_, _)
ExactTotal(rs, n) ==
    IF n = 0 THEN 0 ELSE ExactTotal(rs, n - 1) + SeverityHalves(rs[n].severity)

\* floor(100 * (weighted / 20) / (total / 2))
ExactScore(rs) ==
    (10 * ExactWeighted(rs, Len(rs))) \div ExactTotal(rs, Len(rs))

C2_ExactFloor ==
    (entry = "score" /\ pc = "scored" /\ report.results # <<>>) =>
        report.score = ExactScore(report.results)

\* C3: every auto_fixable result of a report has a check_name with a
\* registered remediation; the Access Logging result is never auto_fixable.
C3_AutoFixClosure ==
    \A i \in 1..Len(report.results) :
        report.results[i].auto_fixable =>
            report.results[i].check_name \in Registered

\* C4: remediate_all selects exactly the results of the report that are
\* auto_fixable with status FAIL or WARNING, in report order.
PosInReport(r) == CHOOSE i \in 1..Len(report.results) : report.results[i] = r

C4_Selection ==
    (entry \in CliEntries /\ pc \notin {"scan", "scanned"}) =>
        /\ \A k \in 1..Len(fixable) :
              /\ \E i \in 1..Len(report.results) : report.results[i] = fixable[k]
              /\ fixable[k].auto_fixable
              /\ fixable[k].status \in {"FAIL", "WARNING"}
        /\ \A i \in 1..Len(report.results) :
              (report.results[i].auto_fixable
                   /\ report.results[i].status \in {"FAIL", "WARNING"})
              => \E k \in 1..Len(fixable) : fixable[k] = report.results[i]
        /\ \A j, k \in 1..Len(fixable) :
              j < k => PosInReport(fixable[j]) < PosInReport(fixable[k])

\* a selection of several results from a report that also holds failing
\* results that are not auto_fixable and results that passed
C4_Witness ==
    /\ entry \in CliEntries
    /\ pc = "fixing"
    /\ Len(fixable) >= 3
    /\ \E i \in 1..14 : /\ report.results[i].status = "FAIL"
                        /\ ~report.results[i].auto_fixable
    /\ \E i \in 1..14 : report.results[i].status = "PASS"

\* C5: once remediation is confirmed or auto-approved, remediate_all leaves
\* its fix loop only with one outcome per selected result, in selection
\* order, whatever the mutations return or raise.
C5_OneOutcomePerSelected ==
    (entry \in CliEntries /\ confirmed \in {"auto", "yes"} /\ pc # "fixing") =>
        /\ Len(fix_results) = Len(fixable)
        /\ \A k \in 1..Len(fixable) : fix_results[k].check = fixable[k].check_name

\* C6: when auto-approve is off and the user declines, remediate_all returns
\* an empty sequence, no mutation is invoked and the workflow is done
\* without a second scan.
C6_DeclineNoMutation ==
    confirmed = "no" =>
        /\ ~auto_approve
        /\ fix_results = <<>>
        /\ calls = <<>>
        /\ pc = "done"
        /\ new_report = NoReport

\* the user declined a non-empty selection
C6_Witness ==
    /\ confirmed = "no"
    /\ Len(fixable) >= 2
    /\ pc = "done"

\* C7: in every remediating workflow that reaches DONE after a mutation was
\* attempted, the bucket was scanned again after the last mutation and the
\* score reported at the end is the one of that second scan.
C7_RescanAfterFix ==
    (pc = "done" /\ calls # <<>>) =>
        /\ Len(new_report.results) = 14
        /\ final_score = new_report.score

\* C8: a check whose query returned its error result is recorded with
\* status ERROR or WARNING, never PASS or FAIL.
C8_DegradedOnQueryError ==
    \A i \in qfailed :
        i <= Len(Cur.results) => Cur.results[i].status \in {"ERROR", "WARNING"}

\* C9: a check that raises is recorded under the catalog's name with status
\* ERROR, severity MEDIUM, auto_fixable false and the exception text; the
\* exception does not leave run_all_checks and the later checks still run.
C9_RaisedBecomesError ==
    /\ \A i \in raised :
          /\ i <= Len(Cur.results)
          /\ Cur.results[i].check_name = checks[i]
          /\ Cur.results[i].status = "ERROR"
          /\ Cur.results[i].severity = "MEDIUM"
          /\ ~Cur.results[i].auto_fixable
          /\ Cur.results[i].exception # ""
    /\ raised # {} => pc \in {"scan", "scanned"}
    /\ pc = "scanned" => check_idx = 14

\* a finished scan in which an early check and the last check raised, and a
\* check in between returned its own result
C9_Witness ==
    /\ entry = "scan"
    /\ pc = "scanned"
    /\ 2 \in raised
    /\ 14 \in raised
    /\ report.results[3].status \in {"PASS", "FAIL"}

\* C10: the score of a non-empty result sequence is within 0..100.
C10_ScoreBounds ==
    (entry = "score" /\ pc = "scored" /\ report.results # <<>>) =>
        (report.score >= 0 /\ report.score <= 100)

\* a scored sequence of mixed results whose score is strictly inside 0..100
C10_Witness ==
    /\ entry = "score"
    /\ pc = "scored"
    /\ Len(report.results) >= 2
    /\ \E i \in 1..Len(report.results) : report.results[i].status = "WARNING"
    /\ report.score > 0
    /\ report.score < 100

Scored == entry = "score" /\ pc = "scored"

\* C11: calculate_score on a report without results sets score 0 and health
\* UNKNOWN; the case is decided before the weighting, so the thresholds
\* (which would label a score of 0 CRITICAL) are not applied.
C11_EmptyReport ==
    (Scored /\ report.results = <<>>) =>
        (report.score = 0 /\ report.overall_health = "UNKNOWN")

\* calculate_score has run on a report without results
C11_Witness ==
    /\ Scored
    /\ report.results = <<>>
    /\ report.overall_health = "UNKNOWN"

\* C12: after calculate_score on a non-empty sequence the health follows
\* from the score alone: HEALTHY iff score >= 90, GOOD iff 70 <= score < 90,
\* NEEDS_ATTENTION iff 50 <= score < 70, UNHEALTHY iff 30 <= score < 50,
\* CRITICAL iff score < 30, and never UNKNOWN.
C12_HealthThresholds ==
    (Scored /\ report.results # <<>>) =>
        /\ report.overall_health = "HEALTHY" <=> report.score >= 90
        /\ report.overall_health = "GOOD" <=>
               (report.score >= 70 /\ report.score < 90)
        /\ report.overall_health = "NEEDS_ATTENTION" <=>
               (report.score >= 50 /\ report.score < 70)
        /\ report.overall_health = "UNHEALTHY" <=>
               (report.score >= 30 /\ report.score < 50)
        /\ report.overall_health = "CRITICAL" <=> report.score < 30
        /\ report.overall_health # "UNKNOWN"

\* a scored sequence whose score is exactly on the GOOD threshold
C12_Witness ==
    /\ Scored
    /\ report.results # <<>>
    /\ report.score = 70
    /\ report.overall_health = "GOOD"

\* the results rs in the order given by the permutation p of 1..Len(rs)
Permuted(rs, p) == [i \in 1..Len(rs) |-> rs[p[i]]]

\* C13: calculate_score gives every permutation of a result sequence the
\* same score and the same health.
C13_PermutationInvariance ==
    Scored =>
        \A p \in Permutations(1..Len(report.results)) :
            LET shuffled == calculate_score(
                    [report EXCEPT !.results = Permuted(report.results, p)])
            IN  /\ shuffled.score = report.score
                /\ shuffled.overall_health = report.overall_health

\* the results rs with the status of result i changed to PASS
Passed(rs, i) == [rs EXCEPT ![i].status = "PASS"]

\* C14: changing one FAIL result to PASS, severity and position kept, does
\* not decrease the score.
C14_Monotone ==
    Scored =>
        \A i \in 1..Len(report.results) :
            report.results[i].status = "FAIL" =>
                calculate_score([report EXCEPT !.results = Passed(@, i)]).score
                    >= report.score

\* a scored sequence with a FAIL result among results that earn points
C14_Witness ==
    /\ Scored
    /\ Len(report.results) >= 2
    /\ report.score > 0
    /\ \E i \in 1..Len(report.results) :
           /\ report.results[i].status = "FAIL"
           /\ calculate_score([report EXCEPT !.results = Passed(@, i)]).score
                  > report.score

\* C15: a non-empty sequence of PASS results scores 100 and is HEALTHY,
\* whatever the severities.
C15_AllPass ==
    (/\ Scored
     /\ report.results # <<>>
     /\ \A i \in 1..Len(report.results) : report.results[i].status = "PASS") =>
        (report.score = 100 /\ report.overall_health = "HEALTHY")

\* a scored all-PASS sequence of more than one severity
C15_Witness ==
    /\ Scored
    /\ Len(report.results) >= 2
    /\ \A i \in 1..Len(report.results) : report.results[i].status = "PASS"
    /\ \E i, j \in 1..Len(report.results) :
           report.results[i].severity # report.results[j].severity
    /\ report.score = 100

\* the position of a check in the catalog
CheckIndex(name) == CHOOSE i \in 1..Len(checks) : checks[i] = name

\* C16: once the mutation of a registered check has succeeded, invoking the
\* mutation again leaves the bucket unchanged, and a re-scan whose query for
\* that check is answered reports the check as PASS, so that remediate_all on
\* the re-scanned report does not select it.
C16_Idempotent ==
    \A k \in 1..Len(fix_results) :
        (fix_results[k].success /\ fix_results[k].check \in Registered) =>
            LET name == fix_results[k].check
                i    == CheckIndex(name)
            IN  /\ Mutate(fix_map[name], bucket) = bucket
                /\ (/\ Len(new_report.results) >= i
                     /\ i \notin (qfailed \cup raised)) =>
                       /\ new_report.results[i].check_name = name
                       /\ new_report.results[i].status = "PASS"
                       /\ \A j \in 1..Len(select_fixable(new_report.results)) :
                              select_fixable(new_report.results)[j].check_name # name

\* a fix workflow that mutated all three registered settings of a bucket
\* that had none of them, and scanned the bucket again
C16_Witness ==
    /\ entry = "fix"
    /\ pc = "done"
    /\ Len(fix_results) >= 3
    /\ \A n \in Registered :
           /\ report.results[CheckIndex(n)].status \in {"FAIL", "WARNING"}
           /\ \E k \in 1..Len(fix_results) :
                  fix_results[k].check = n /\ fix_results[k].success
    /\ Len(new_report.results) = 14

\* the mutation the remediation map registers for a check name
RegisteredOp(name) ==
    CASE name = "Public Access Block"    -> "block_public_access"
      [] name = "Server-Side Encryption" -> "enable_encryption"
      [] name = "Versioning"             -> "enable_versioning"

\* the mutations due for the first n selected results
OpsDue(n) ==
    LET sel == SelectSeq(SubSeq(fixable, 1, n),
                         LAMBDA r : r.check_name \in Registered)
    IN  [k \in 1..Len(sel) |-> RegisteredOp(sel[k].check_name)]

\* C17: the mutations invoked are exactly those the remediation map
\* registers for the selected results processed so far (encryption with
\* AES256); for a selected result with any other check name _apply_fix
\* invokes no mutation, does not raise, and records an outcome with
\* success false and the 'no automated fix available' message.
C17_OnlyRegisteredFixes ==
    /\ calls = OpsDue(fix_idx)
         \/ /\ pc \in {"crashed", "error500"}
            /\ fix_idx < Len(fixable)
            /\ fixable[fix_idx + 1].check_name \in Registered
            /\ calls = OpsDue(fix_idx + 1)
    /\ entry \in CliEntries =>
          \A k \in 1..Len(fix_results) :
              IF fixable[k].check_name \in Registered
              THEN fix_results[k].success =>
                       (fixable[k].check_name = "Server-Side Encryption"
                            => bucket.encryption = <<"AES256">>)
              ELSE /\ fix_results[k].check = fixable[k].check_name
                   /\ ~fix_results[k].success
                   /\ fix_results[k].message =
                          "No automated fix available for this check."

\* a finished fix loop whose selection held a registered result and the
\* Access Logging result, for which no fix is registered
C17_Witness ==
    /\ entry \in CliEntries
    /\ pc = "fixed"
    /\ calls # <<>>
    /\ \E k \in 1..Len(fix_results) :
           /\ fixable[k].check_name = "Access Logging"
           /\ ~fix_results[k].success
    /\ \E k \in 1..Len(fix_results) :
           fixable[k].check_name = "Server-Side Encryption" /\ fix_results[k].success

\* the report of the first scan holds no result to remediate
NothingToFix ==
    \A i \in 1..Len(report.results) :
        ~(report.results[i].auto_fixable
              /\ report.results[i].status \in {"FAIL", "WARNING"})

\* C18: when the report holds no auto_fixable result with status FAIL or
\* WARNING, remediate_all returns an empty sequence without asking for
\* confirmation and without invoking a mutation, with auto-approve on or off.
C18_NothingToFix ==
    (/\ entry \in CliEntries
     /\ pc \notin {"verify", "exit1", "scan", "scanned"}
     /\ NothingToFix) =>
        /\ confirmed = ""
        /\ fixable = <<>>
        /\ fix_results = <<>>
        /\ calls = <<>>
        /\ pc = "done"

\* remediate_all has returned in interactive mode on the report of a bucket
\* with every registered setting and access logging in place
C18_Witness ==
    /\ entry \in CliEntries
    /\ ~auto_approve
    /\ pc = "done"
    /\ Len(report.results) = 14
    /\ NothingToFix
    /\ \A n \in Registered : report.results[CheckIndex(n)].status = "PASS"

\* the bucket's block configuration exists and has all four sub-flags true
AllBlocked ==
    /\ bucket.public_access_block.exists
    /\ \A k \in Flags :
           /\ k \in DOMAIN bucket.public_access_block.config
           /\ bucket.public_access_block.config[k]

\* C19: check_public_access returns PASS (CRITICAL, not auto_fixable) iff
\* the block configuration exists with all four sub-flags true; when the
\* configuration is absent or a sub-flag is false or missing it returns FAIL
\* with severity CRITICAL and auto_fixable true.
C19_PublicAccess ==
    (/\ entry = "scan"
     /\ check_idx >= CheckIndex("Public Access Block")
     /\ CheckIndex("Public Access Block") \notin (qfailed \cup raised)) =>
        LET r == report.results[CheckIndex("Public Access Block")]
        IN  /\ r.check_name = "Public Access Block"
            /\ r.severity = "CRITICAL"
            /\ r.status = "PASS" <=> AllBlocked
            /\ r.status = "FAIL" <=> ~AllBlocked
            /\ r.auto_fixable <=> ~AllBlocked

\* the check has answered for a configuration that lacks one sub-flag
C19_Witness ==
    /\ entry = "scan"
    /\ check_idx >= CheckIndex("Public Access Block")
    /\ CheckIndex("Public Access Block") \notin (qfailed \cup raised)
    /\ bucket.public_access_block.exists
    /\ "RestrictPublicBuckets" \notin DOMAIN bucket.public_access_block.config
    /\ report.results[CheckIndex("Public Access Block")].status = "FAIL"

\* C20: check_versioning returns PASS iff the versioning status is Enabled,
\* WARNING iff it is Suspended and FAIL for every other status; the severity
\* is always MEDIUM and auto_fixable is true exactly when the status is not
\* PASS.
C20_Versioning ==
    (/\ entry = "scan"
     /\ check_idx >= CheckIndex("Versioning")
     /\ CheckIndex("Versioning") \notin (qfailed \cup raised)) =>
        LET r == report.results[CheckIndex("Versioning")]
        IN  /\ r.check_name = "Versioning"
            /\ r.severity = "MEDIUM"
            /\ r.status = "PASS" <=> bucket.versioning = "Enabled"
            /\ r.status = "WARNING" <=> bucket.versioning = "Suspended"
            /\ r.status = "FAIL" <=> bucket.versioning \notin {"Enabled", "Suspended"}
            /\ r.auto_fixable <=> r.status # "PASS"

\* the check has answered for a bucket whose versioning is suspended
C20_Witness ==
    /\ entry = "scan"
    /\ check_idx >= CheckIndex("Versioning")
    /\ CheckIndex("Versioning") \notin (qfailed \cup raised)
    /\ bucket.versioning = "Suspended"
    /\ report.results[CheckIndex("Versioning")].status = "WARNING"
    /\ report.results[CheckIndex("Versioning")].auto_fixable

\* the result of the running scan for a check that has answered: the check
\* did not raise
Answered(name) ==
    /\ entry = "scan"
    /\ check_idx >= CheckIndex(name)
    /\ CheckIndex(name) \notin raised

ResultOf(name) == report.results[CheckIndex(name)]

\* the provider answered the query of the check
Queried(name) == CheckIndex(name) \notin qfailed

PolicyStatements ==
    IF bucket.policy.kind = "document" THEN bucket.policy.statements ELSE <<>>

\* an Allow statement with a wildcard principal
WildcardAllow ==
    \E i \in 1..Len(PolicyStatements) :
        /\ PolicyStatements[i].Effect = "Allow"
        /\ PolicyStatements[i].Principal \in {"*", "AWS:*"}

\* a statement whose action is the bare string s3:*
BareStarAction ==
    \E i \in 1..Len(PolicyStatements) :
        /\ PolicyStatements[i].Action.kind = "str"
        /\ PolicyStatements[i].Action.str = "s3:*"

\* a statement that lists s3:DeleteBucket, s3:DeleteObject or
\* s3:PutBucketPolicy among its actions and has no Condition
UnguardedSensitiveAction ==
    \E i \in 1..Len(PolicyStatements) :
        /\ PolicyStatements[i].Action.kind = "list"
        /\ ~PolicyStatements[i].Condition
        /\ \E j \in 1..Len(PolicyStatements[i].Action.list) :
               PolicyStatements[i].Action.list[j] \in
                   {"s3:DeleteBucket", "s3:DeleteObject", "s3:PutBucketPolicy"}

\* what C21 says about every case but PASS
PolicyCommon(r) ==
    /\ r.check_name = "Bucket Policy"
    /\ ~r.auto_fixable
    /\ bucket.policy.kind = "none" => (r.status = "WARNING" /\ r.severity = "LOW")
    /\ bucket.policy.kind = "unparsable" => r.status = "ERROR"
    /\ (bucket.policy.kind = "document" /\ WildcardAllow) =>
           (r.status = "FAIL" /\ r.severity = "CRITICAL")
    /\ (bucket.policy.kind = "document" /\ BareStarAction /\ ~WildcardAllow) =>
           (r.status = "WARNING" /\ r.severity = "HIGH")

\* C21 (as stated): check_bucket_policy returns WARNING/LOW without a policy,
\* ERROR for a policy that is not JSON, FAIL/CRITICAL with a wildcard-principal
\* Allow statement, WARNING/HIGH with only a bare s3:* action, and PASS (HIGH)
\* iff the policy has neither; it is never auto_fixable.
C21_PolicyAsStated ==
    (Answered("Bucket Policy") /\ Queried("Bucket Policy")) =>
        LET r == ResultOf("Bucket Policy")
        IN  /\ PolicyCommon(r)
            /\ r.status = "PASS" <=>
                   (/\ bucket.policy.kind = "document"
                    /\ ~WildcardAllow
                    /\ ~BareStarAction)
            /\ r.status = "PASS" => r.severity = "HIGH"

\* C21 (amended): as stated, except that PASS also requires that no
\* statement lists a sensitive action without a Condition; such a statement
\* gives WARNING/HIGH when no wildcard-principal Allow statement is present.
C21_Policy ==
    (Answered("Bucket Policy") /\ Queried("Bucket Policy")) =>
        LET r == ResultOf("Bucket Policy")
        IN  /\ PolicyCommon(r)
            /\ r.status = "PASS" <=>
                   (/\ bucket.policy.kind = "document"
                    /\ ~WildcardAllow
                    /\ ~BareStarAction
                    /\ ~UnguardedSensitiveAction)
            /\ r.status = "PASS" => r.severity = "HIGH"
            /\ (/\ bucket.policy.kind = "document"
                 /\ UnguardedSensitiveAction
                 /\ ~WildcardAllow) =>
                   (r.status = "WARNING" /\ r.severity = "HIGH")

\* the check has answered for a policy whose only issue is a sensitive
\* action listed without a Condition
C21_Witness ==
    /\ Answered("Bucket Policy")
    /\ Queried("Bucket Policy")
    /\ UnguardedSensitiveAction
    /\ ~WildcardAllow
    /\ ~BareStarAction
    /\ ResultOf("Bucket Policy").status = "WARNING"

\* C22: check_encryption returns PASS/HIGH, not auto_fixable, iff the bucket
\* has an encryption rule, and FAIL/HIGH, auto_fixable, when it has none; it
\* raises for no fact the provider returns, the error result included: only
\* an exception of the query itself makes the check raise.
C22_Encryption ==
    /\ Answered("Server-Side Encryption") =>
          LET r == ResultOf("Server-Side Encryption")
          IN  /\ r.check_name = "Server-Side Encryption"
              /\ r.severity = "HIGH"
              /\ r.status \in {"PASS", "FAIL"}
              /\ r.auto_fixable <=> r.status = "FAIL"
              /\ Queried("Server-Side Encryption") =>
                     (r.status = "PASS" <=> bucket.encryption # <<>>)
    /\ (/\ entry = "scan"
         /\ CheckIndex("Server-Side Encryption") \in raised) =>
          ResultOf("Server-Side Encryption").exception = "EndpointConnectionError"

\* the query failed for a bucket that has an encryption rule, and the check
\* answered the error result with FAIL instead of raising
C22_Witness ==
    /\ Answered("Server-Side Encryption")
    /\ ~Queried("Server-Side Encryption")
    /\ bucket.exists = "200"
    /\ bucket.encryption # <<>>
    /\ ResultOf("Server-Side Encryption").status = "FAIL"

\* C23: check_lifecycle returns PASS iff the bucket has a lifecycle rule
\* whose Status is Enabled, and WARNING when it has no rules or none that is
\* Enabled; the severity is LOW and the result is never auto_fixable.
C23_Lifecycle ==
    (Answered("Lifecycle Rules") /\ Queried("Lifecycle Rules")) =>
        LET r == ResultOf("Lifecycle Rules")
            enabled == /\ bucket.lifecycle.exists
                       /\ \E i \in 1..Len(bucket.lifecycle.rules) :
                              bucket.lifecycle.rules[i] = "Enabled"
        IN  /\ r.check_name = "Lifecycle Rules"
            /\ r.severity = "LOW"
            /\ ~r.auto_fixable
            /\ r.status = "PASS" <=> enabled
            /\ r.status = "WARNING" <=> ~enabled

\* a CORS rule of the bucket allows the wildcard origin
WildcardOrigin ==
    /\ bucket.cors.exists
    /\ \E i \in 1..Len(bucket.cors.rules) : "*" \in bucket.cors.rules[i].AllowedOrigins

\* a CORS rule of the bucket allows PUT or DELETE
WriteMethods ==
    /\ bucket.cors.exists
    /\ \E i \in 1..Len(bucket.cors.rules) :
           bucket.cors.rules[i].AllowedMethods \cap {"PUT", "DELETE"} # {}

\* C24 (as stated): check_cors returns PASS iff there is no CORS
\* configuration or no rule has the wildcard origin, WARNING exactly when
\* some rule allows the wildcard origin, and the severity is MEDIUM or LOW.
C24_CorsAsStated ==
    (Answered("CORS Configuration") /\ Queried("CORS Configuration")) =>
        LET r == ResultOf("CORS Configuration")
        IN  /\ r.status = "PASS" <=> ~WildcardOrigin
            /\ r.status = "WARNING" <=> WildcardOrigin
            /\ r.severity \in {"MEDIUM", "LOW"}

\* C24 (amended): check_cors returns WARNING (MEDIUM) exactly when some rule
\* allows the wildcard origin or the methods PUT or DELETE, and PASS
\* otherwise, with severity INFO when there is no CORS configuration and LOW
\* when there is one; the result is never auto_fixable.
C24_Cors ==
    (Answered("CORS Configuration") /\ Queried("CORS Configuration")) =>
        LET r == ResultOf("CORS Configuration")
        IN  /\ r.check_name = "CORS Configuration"
            /\ ~r.auto_fixable
            /\ r.status = "WARNING" <=> (WildcardOrigin \/ WriteMethods)
            /\ r.status = "PASS" <=> ~(WildcardOrigin \/ WriteMethods)
            /\ r.severity = (IF r.status = "WARNING" THEN "MEDIUM"
                             ELSE IF bucket.cors.exists THEN "LOW" ELSE "INFO")

\* the check has answered WARNING for a configuration without wildcard
\* origin whose rule allows PUT
C24_Witness ==
    /\ Answered("CORS Configuration")
    /\ Queried("CORS Configuration")
    /\ ~WildcardOrigin
    /\ WriteMethods
    /\ ResultOf("CORS Configuration").status = "WARNING"
    /\ ResultOf("CORS Configuration").severity = "MEDIUM"

\* C25: in a report of run_all_checks the results for Replication, Object
\* Lock, Transfer Acceleration and Bucket Size have severity INFO and are
\* not auto_fixable; the first three are never FAIL, WARNING or ERROR when
\* the provider answered their query, and Bucket Size is ERROR only when
\* the size retrieval failed.
C25_Informational ==
    (entry = "scan" /\ pc = "scanned") =>
        /\ \A n \in {"Replication", "Object Lock", "Transfer Acceleration",
                      "Bucket Size"} :
               /\ ResultOf(n).severity = "INFO"
               /\ ~ResultOf(n).auto_fixable
        /\ \A n \in {"Replication", "Object Lock", "Transfer Acceleration"} :
               (Queried(n) /\ ResultOf(n).exception # "EndpointConnectionError")
                   => ResultOf(n).status \notin {"FAIL", "WARNING", "ERROR"}
        /\ ResultOf("Bucket Size").status = "ERROR" =>
               \/ ~Queried("Bucket Size")
               \/ ResultOf("Bucket Size").exception = "EndpointConnectionError"

\* C26: with invalid credentials every entry point that scans or fixes a
\* bucket ends with an error before a check query or a mutation is sent.
C26_CredentialsFirst ==
    credentials # "valid" =>
        /\ check_idx = 0
        /\ calls = <<>>
        /\ pc \in {"verify", "scan", "exit1", "crashed", "error500"}

C28_CreatedOnce ==
    /\ client.built <= 1
    /\ \A t, u \in DOMAIN threads :
          (threads[t].handle # 0 /\ threads[u].handle # 0)
              => threads[t].handle = threads[u].handle

\* the results a scan of bucket b alone gives, after its first n checks
RECURSIVE ScanResults(_, _)
ScanResults(b, n) ==
    IF n = 0 THEN <<>>
    ELSE run_check(ScanResults(b, n - 1), checks[n], check_func(n, b, "ok"))

\* the report of request t holds the results of its own bucket only, and
\* once returned it holds all of them with the score of these results
OwnReport(t) ==
    /\ threads[t].report.results = ScanResults(threads[t].bucket, threads[t].check_idx)
    /\ threads[t].pc = "returned" =>
          /\ Len(threads[t].report.results) = Len(checks)
          /\ threads[t].report =
                calculate_score([threads[t].report EXCEPT
                                    !.score = 0, !.overall_health = "UNKNOWN"])

\* the reports of interleaved scans never mix
ReportsIsolated == \A t \in DOMAIN threads : OwnReport(t)

\* C29: every one of the interleaved run_all_checks calls on the shared
\* S3Diagnostics returns, and returns its own report: the 14 results of its
\* own bucket's facts and the score of these results.
C29_OwnReports ==
    \A t \in DOMAIN threads :
        /\ threads[t].pc # "error500"
        /\ OwnReport(t)

\* C30: on every report the fix endpoint of the API ends with the outcome
\* sequence remediate_all gives in auto-approve mode: one entry per selected
\* result, in selection order, and the same mutations in the same order.
C30_ApiFixEquivalent ==
    (entry = "api_fix" /\ pc \in {"rescan", "rescanned", "done"}) =>
        /\ fixable = select_fixable(report.results)
        /\ calls = OpsDue(Len(fixable))
        /\ Len(fix_results) = Len(fixable)
        /\ \A k \in 1..Len(fixable) : fix_results[k].check = fixable[k].check_name

====
